---- MODULE Spec2Model ----
(***************************************************************************)
(* State machine of the AERO-12 smart-home dashboard (src/App.tsx) and of  *)
(* its text-generation service (src/services/geminiService.ts).            *)
(*                                                                         *)
(* JavaScript strings that the program transforms or scans (toUpperCase,   *)
(* toLowerCase, trim, includes, template literals) are sequences of        *)
(* one-character strings; values of string-literal union types ('ACTIVE',  *)
(* 'info', 'USER', ...) that are only compared are TLA+ strings.           *)
(***************************************************************************)
EXTENDS Integers, Sequences, FiniteSets, TLC

(***************************************************************************)
(* Bounds of the model.                                                    *)
(***************************************************************************)
\* how many rooms (the last ones of INITIAL_ROOMS) the user clicks on
MaxUserRooms == 1
\* how many of the view-mode buttons (the first ones) the user clicks on
MaxViewButtons == 1
\* how many log-producing user events (toggles, submissions) are taken
MaxLogged == 2
\* how many pairs of security toggles have filled the log when SpecLog starts
MaxPrefill == 7

(***************************************************************************)
(* Characters and strings.                                                 *)
(***************************************************************************)
LowerLetters == <<"a","b","c","d","e","f","g","h","i","j","k","l","m","n","o","p","q","r","s","t","u","v","w","x","y","z">>
UpperLetters == <<"A","B","C","D","E","F","G","H","I","J","K","L","M","N","O","P","Q","R","S","T","U","V","W","X","Y","Z">>
\* the white space String.prototype.trim removes, as far as an input box holds it
WhiteSpace == {" ", "\t"}

LetterIndex(letters, c) == CHOOSE i \in DOMAIN letters : letters[i] = c

toUpperCaseChar(c) ==
  IF \E i \in DOMAIN LowerLetters : LowerLetters[i] = c
    THEN UpperLetters[LetterIndex(LowerLetters, c)]
    ELSE c

toLowerCaseChar(c) ==
  IF \E i \in DOMAIN UpperLetters : UpperLetters[i] = c
    THEN LowerLetters[LetterIndex(UpperLetters, c)]
    ELSE c

toUpperCase(s) == [i \in DOMAIN s |-> toUpperCaseChar(s[i])]

\* a scan that forgets to fold the case
toLowerCase_none(s) == s

toLowerCase(s) == [i \in DOMAIN s |-> toLowerCaseChar(s[i])]

\* String.prototype.includes
includes(s, pat) ==
  \E i \in 1..(Len(s) - Len(pat) + 1) : SubSeq(s, i, i + Len(pat) - 1) = pat

RECURSIVE trimStart(_)
trimStart(s) ==
  IF s # <<>> /\ Head(s) \in WhiteSpace THEN trimStart(Tail(s)) ELSE s

RECURSIVE trimEnd(_)
trimEnd(s) ==
  IF s # <<>> /\ s[Len(s)] \in WhiteSpace
    THEN trimEnd(SubSeq(s, 1, Len(s) - 1))
    ELSE s

\* a test of the raw input
trim_none(s) == s

\* String.prototype.trim
trim(s) == trimEnd(trimStart(s))

(***************************************************************************)
(* String literals of the source.                                          *)
(***************************************************************************)
\* 'living'
ID_living == <<"l","i","v","i","n","g">>
\* 'kitchen'
ID_kitchen == <<"k","i","t","c","h","e","n">>
\* 'master'
ID_master == <<"m","a","s","t","e","r">>
\* 'office'
ID_office == <<"o","f","f","i","c","e">>
\* 'garage'
ID_garage == <<"g","a","r","a","g","e">>
\* 'tv1'
ID_tv1 == <<"t","v","1">>
\* 'fridge'
ID_fridge == <<"f","r","i","d","g","e">>
\* 'thermostat'
ID_thermostat == <<"t","h","e","r","m","o","s","t","a","t">>
\* 'server'
ID_server == <<"s","e","r","v","e","r">>
\* 'router'
ID_router == <<"r","o","u","t","e","r">>
\* 'washer'
ID_washer == <<"w","a","s","h","e","r">>
\* 'camera_front'
ID_camera_front == <<"c","a","m","e","r","a","_","f","r","o","n","t">>
\* 'Holoscreen TV'
NAME_tv1 == <<"H","o","l","o","s","c","r","e","e","n"," ","T","V">>
\* 'Smart Fridge'
NAME_fridge == <<"S","m","a","r","t"," ","F","r","i","d","g","e">>
\* 'Nest Hub'
NAME_thermostat == <<"N","e","s","t"," ","H","u","b">>
\* 'Home Server'
NAME_server == <<"H","o","m","e"," ","S","e","r","v","e","r">>
\* 'Mesh Router'
NAME_router == <<"M","e","s","h"," ","R","o","u","t","e","r">>
\* 'Quantum Washer'
NAME_washer == <<"Q","u","a","n","t","u","m"," ","W","a","s","h","e","r">>
\* 'Front Cam'
NAME_camera_front == <<"F","r","o","n","t"," ","C","a","m">>
\* 'LIGHTS TOGGLED FOR '
TXT_LIGHTS == <<"L","I","G","H","T","S"," ","T","O","G","G","L","E","D"," ","F","O","R"," ">>
\* ' SET TO '
TXT_SET_TO == <<" ","S","E","T"," ","T","O"," ">>
\* 'SYSTEM '
TXT_SYSTEM == <<"S","Y","S","T","E","M"," ">>
\* 'ACTIVE'
TXT_ACTIVE == <<"A","C","T","I","V","E">>
\* 'IDLE'
TXT_IDLE == <<"I","D","L","E">>
\* 'ARMED'
TXT_ARMED == <<"A","R","M","E","D">>
\* 'DISARMED'
TXT_DISARMED == <<"D","I","S","A","R","M","E","D">>
\* 'BOOT SEQUENCE COMPLETE'
TXT_BOOT == <<"B","O","O","T"," ","S","E","Q","U","E","N","C","E"," ","C","O","M","P","L","E","T","E">>
\* 'PERIMETER SECURE'
TXT_PERIMETER == <<"P","E","R","I","M","E","T","E","R"," ","S","E","C","U","R","E">>
\* 'Run full system diagnostic report'
TXT_DIAGNOSTIC == <<"R","u","n"," ","f","u","l","l"," ","s","y","s","t","e","m"," ","d","i","a","g","n","o","s","t","i","c"," ","r","e","p","o","r","t">>
\* 'SYSTEM ERROR: NO RESPONSE DATA'
TXT_NO_RESPONSE == <<"S","Y","S","T","E","M"," ","E","R","R","O","R",":"," ","N","O"," ","R","E","S","P","O","N","S","E"," ","D","A","T","A">>
\* 'CONNECTION ERROR: UNABLE TO REACH AI CORE.'
TXT_CONNECTION == <<"C","O","N","N","E","C","T","I","O","N"," ","E","R","R","O","R",":"," ","U","N","A","B","L","E"," ","T","O"," ","R","E","A","C","H"," ","A","I"," ","C","O","R","E",".">>
\* 'view power'
PAT_power == <<"v","i","e","w"," ","p","o","w","e","r">>
\* 'view water'
PAT_water == <<"v","i","e","w"," ","w","a","t","e","r">>
\* 'view thermal'
PAT_thermal == <<"v","i","e","w"," ","t","h","e","r","m","a","l">>
\* a reply of the text-generation collaborator: 'Switching to View Thermal'
TXT_REPLY_THERMAL == <<"S","w","i","t","c","h","i","n","g"," ","t","o"," ","V","i","e","w"," ","T","h","e","r","m","a","l">>
\* command texts used as inputs
CMD_BLANK == <<" "," ">>
CMD_POWER == <<"V","i","e","w"," ","P","o","w","e","r">>
CMD_WATER == <<"v","i","e","w"," ","w","a","t","e","r"," ">>
CMD_THERMAL == <<" ","V","I","E","W"," ","T","H","E","R","M","A","L">>

\* commands that hold two triggers, the one of higher rank first
CMD_THERMAL_POWER ==
  <<"v","i","e","w"," ","t","h","e","r","m","a","l"," ","v","i","e","w"," ","p","o","w","e","r">>
CMD_WATER_POWER ==
  <<"V","i","e","w"," ","W","a","t","e","r",","," ","v","i","e","w"," ","p","o","w","e","r">>
CMD_THERMAL_WATER ==
  <<"v","i","e","w"," ","t","h","e","r","m","a","l"," ","v","i","e","w"," ","w","a","t","e","r">>

\* the value of an unset selection (null); no identifier is the empty string
Null == <<>>

(***************************************************************************)
(* Data of the program.                                                    *)
(***************************************************************************)
INITIAL_ROOMS ==
  << [id |-> ID_living, name |-> "LIVING ROOM", temp |-> 215, humidity |-> 45,
      lights |-> TRUE, power |-> 120, active |-> FALSE,
      devices |-> << [id |-> ID_tv1, name |-> NAME_tv1, type |-> "TV",
                      status |-> "IDLE", powerDraw |-> 80] >>],
     [id |-> ID_kitchen, name |-> "KITCHEN", temp |-> 220, humidity |-> 50,
      lights |-> TRUE, power |-> 250, active |-> FALSE,
      devices |-> << [id |-> ID_fridge, name |-> NAME_fridge, type |-> "FRIDGE",
                      status |-> "ACTIVE", powerDraw |-> 150, temperature |-> 35] >>],
     [id |-> ID_master, name |-> "MASTER SUITE", temp |-> 200, humidity |-> 40,
      lights |-> FALSE, power |-> 40, active |-> FALSE,
      devices |-> << [id |-> ID_thermostat, name |-> NAME_thermostat,
                      type |-> "THERMOSTAT", status |-> "ACTIVE", powerDraw |-> 5,
                      temperature |-> 200] >>],
     [id |-> ID_office, name |-> "OFFICE", temp |-> 210, humidity |-> 35,
      lights |-> TRUE, power |-> 350, active |-> TRUE,
      devices |-> << [id |-> ID_server, name |-> NAME_server, type |-> "SERVER",
                      status |-> "ACTIVE", powerDraw |-> 300, temperature |-> 450],
                     [id |-> ID_router, name |-> NAME_router, type |-> "ROUTER",
                      status |-> "ACTIVE", powerDraw |-> 15] >>],
     [id |-> ID_garage, name |-> "GARAGE", temp |-> 180, humidity |-> 60,
      lights |-> FALSE, power |-> 10, active |-> FALSE,
      devices |-> << [id |-> ID_washer, name |-> NAME_washer, type |-> "WASHER",
                      status |-> "IDLE", powerDraw |-> 0, progress |-> 0],
                     [id |-> ID_camera_front, name |-> NAME_camera_front,
                      type |-> "CAMERA", status |-> "ACTIVE", powerDraw |-> 8] >>] >>

INITIAL_STATUS ==
  [security |-> "ARMED", network |-> "ONLINE", aiStatus |-> "IDLE", totalPower |-> 0]

INITIAL_LOGS ==
  << [source |-> "SYSTEM", message |-> TXT_BOOT, type |-> "info"],
     [source |-> "SECURITY", message |-> TXT_PERIMETER, type |-> "info"] >>

\* the view-mode buttons, in the order they are rendered
VIEW_MODES == <<"STANDARD", "POWER", "VENTILATION", "WIFI", "WATER", "THERMAL">>

\* the devices the 3D scene renders a clickable mesh for
SCENE_DEVICES ==
  {ID_tv1, ID_fridge, ID_washer, ID_camera_front, ID_thermostat, ID_server}

\* text of a status value inside a template literal
StatusText(s) ==
  CASE s = "ACTIVE" -> TXT_ACTIVE
    [] s = "IDLE" -> TXT_IDLE
    [] s = "ARMED" -> TXT_ARMED
    [] s = "DISARMED" -> TXT_DISARMED

(***************************************************************************)
(* Inputs of the model.                                                    *)
(***************************************************************************)
DeviceIds(room) == {room.devices[j].id : j \in DOMAIN room.devices}

AllDeviceIds == UNION {DeviceIds(INITIAL_ROOMS[i]) : i \in DOMAIN INITIAL_ROOMS}

UserRoomIndexes ==
  {i \in DOMAIN INITIAL_ROOMS : i > Len(INITIAL_ROOMS) - MaxUserRooms}

UserRooms == {INITIAL_ROOMS[i].id : i \in UserRoomIndexes}

UserSceneDevices ==
  SCENE_DEVICES \cap UNION {DeviceIds(INITIAL_ROOMS[i]) : i \in UserRoomIndexes}

UserViewModes ==
  {VIEW_MODES[i] : i \in {j \in DOMAIN VIEW_MODES : j <= MaxViewButtons}}

\* what the user types into the command input in Spec and SpecLog, where
\* commands proper come from the DIAGNOSTICS button
BlankCommands == {<<>>, CMD_BLANK}

\* what the user types into the command input in SpecLive
TypedCommands == {CMD_BLANK, CMD_POWER}

\* the command texts the trigger scan is applied to in SpecCmd
CommandTexts ==
  {CMD_POWER, CMD_WATER, CMD_THERMAL, TXT_DIAGNOSTIC,
   CMD_THERMAL_POWER, CMD_WATER_POWER, CMD_THERMAL_WATER}

\* what ai.models.generateContent does: resolve with a text (possibly
\* empty or absent) or reject
CollaboratorOutcomes ==
  {[kind |-> "text", text |-> TXT_REPLY_THERMAL],
   [kind |-> "text", text |-> <<>>],
   [kind |-> "throw", text |-> <<>>]}

(***************************************************************************)
(* State.                                                                  *)
(***************************************************************************)
VARIABLES
  rooms,             \* useState<RoomNode[]>
  systemStatus,      \* useState<SystemStatus>
  activeRoomId,      \* useState<string | null>
  selectedDeviceId,  \* useState<string | null>
  viewMode,          \* useState<ViewMode>
  logs,              \* useState<LogEntry[]>
  aiInput,           \* useState('')
  pending,           \* commands between submission and completion
  effectPending,     \* the effect on [rooms] is scheduled and has not run
  lastOp,            \* history: the handler or callback that ran last, with
                     \* its arguments ("selectRoom" and "back" for these two
                     \* inline handlers, "inline" for the other inline ones)
  toggleHist,        \* history: status of each device before its last toggle
  nLogged            \* history: number of log-producing user events so far

progVars ==
  <<rooms, systemStatus, activeRoomId, selectedDeviceId, viewMode, logs,
    aiInput, pending, effectPending>>

vars ==
  <<rooms, systemStatus, activeRoomId, selectedDeviceId, viewMode, logs,
    aiInput, pending, effectPending, lastOp, toggleHist, nLogged>>

Op(name, a, b) == [op |-> name, a |-> a, b |-> b]

(***************************************************************************)
(* Pure parts of the handlers.                                             *)
(***************************************************************************)
\* Array.prototype.find as an index, 0 when nothing matches; hits[k] is the
\* result of the callback on element k
RECURSIVE FindFrom(_, _)
FindFrom(hits, i) ==
  IF i > Len(hits) THEN 0
  ELSE IF hits[i] THEN i
  ELSE FindFrom(hits, i + 1)

\* a slice that keeps the oldest entries: prev.slice(0, n)
SliceLast_first(seq, n) ==
  IF Len(seq) <= n THEN seq ELSE SubSeq(seq, 1, n)

\* prev.slice(-n)
SliceLast(seq, n) ==
  IF Len(seq) <= n THEN seq ELSE SubSeq(seq, Len(seq) - n + 1, Len(seq))

\* an append that keeps one entry too many
addLog_keep16(prev, source, message, type) ==
  Append(SliceLast(prev, 16),
         [source |-> source, message |-> message, type |-> type])

\* addLog: the entry's id and timestamp are clock readings that nothing reads
addLog(prev, source, message, type) ==
  Append(SliceLast(prev, 15),
         [source |-> source, message |-> message, type |-> type])

\* a sum that leaves idle devices out
RECURSIVE DevicePower_noIdleBaseline(_, _, _)
DevicePower_noIdleBaseline(devices, j, dAcc) ==
  IF j > Len(devices) THEN dAcc
  ELSE DevicePower_noIdleBaseline(devices, j + 1,
         dAcc + (IF devices[j].status = "ACTIVE" THEN devices[j].powerDraw ELSE 0))

\* the inner reduce of the effect on [rooms]
RECURSIVE DevicePower(_, _, _)
DevicePower(devices, j, dAcc) ==
  IF j > Len(devices) THEN dAcc
  ELSE DevicePower(devices, j + 1,
         dAcc + (IF devices[j].status = "ACTIVE" THEN devices[j].powerDraw ELSE 2))

\* the outer reduce of the effect on [rooms]
RECURSIVE RoomsPower(_, _, _)
RoomsPower(rs, i, acc) ==
  IF i > Len(rs) THEN acc
  ELSE LET room == rs[i]
           roomBase == IF room.lights THEN room.power ELSE 5
           devicePower == DevicePower(room.devices, 1, 0)
       IN RoomsPower(rs, i + 1, acc + roomBase + devicePower)

total(rs) == RoomsPower(rs, 1, 0)

\* a toggle that only switches on
newDeviceStatus_alwaysActive(status) == "ACTIVE"

\* the status a device toggle gives
newDeviceStatus(status) == IF status = "ACTIVE" THEN "IDLE" ELSE "ACTIVE"

\* an updater that flips the lights of every room
toggleRoomLightRooms_all(prev, id) ==
  [i \in DOMAIN prev |-> [prev[i] EXCEPT !.lights = ~prev[i].lights]]

\* the updater of toggleRoomLight
toggleRoomLightRooms(prev, id) ==
  [i \in DOMAIN prev |->
     IF prev[i].id = id THEN [prev[i] EXCEPT !.lights = ~prev[i].lights]
     ELSE prev[i]]

\* an updater that switches an active device off
toggleDeviceRooms_off(prev, roomId, deviceId) ==
  [i \in DOMAIN prev |->
     IF prev[i].id # roomId THEN prev[i]
     ELSE [prev[i] EXCEPT !.devices =
             [j \in DOMAIN prev[i].devices |->
                LET d == prev[i].devices[j] IN
                IF d.id # deviceId THEN d
                ELSE [d EXCEPT !.status =
                        IF d.status = "ACTIVE" THEN "OFF" ELSE "ACTIVE"]]]]

\* the updater of toggleDevice: the rooms it returns
toggleDeviceRooms(prev, roomId, deviceId) ==
  [i \in DOMAIN prev |->
     IF prev[i].id # roomId THEN prev[i]
     ELSE [prev[i] EXCEPT !.devices =
             [j \in DOMAIN prev[i].devices |->
                LET d == prev[i].devices[j] IN
                IF d.id # deviceId THEN d
                ELSE [d EXCEPT !.status = newDeviceStatus(d.status)]]]]

\* addLog calls with the two severities exchanged
RECURSIVE toggleDeviceLogsIn_swapped(_, _, _, _)
toggleDeviceLogsIn_swapped(devices, deviceId, j, lg) ==
  IF j > Len(devices) THEN lg
  ELSE LET d == devices[j]
           newStatus == newDeviceStatus(d.status)
       IN toggleDeviceLogsIn_swapped(devices, deviceId, j + 1,
            IF d.id # deviceId THEN lg
            ELSE addLog(lg, "DEVICE_CTRL",
                        toUpperCase(d.name) \o TXT_SET_TO \o StatusText(newStatus),
                        IF newStatus = "ACTIVE" THEN "info" ELSE "warning"))

\* the updater of toggleDevice: the addLog calls it makes on the way, one for
\* each device it flips, in the order of the two maps
RECURSIVE toggleDeviceLogsIn(_, _, _, _)
toggleDeviceLogsIn(devices, deviceId, j, lg) ==
  IF j > Len(devices) THEN lg
  ELSE LET d == devices[j]
           newStatus == newDeviceStatus(d.status)
       IN toggleDeviceLogsIn(devices, deviceId, j + 1,
            IF d.id # deviceId THEN lg
            ELSE addLog(lg, "DEVICE_CTRL",
                        toUpperCase(d.name) \o TXT_SET_TO \o StatusText(newStatus),
                        IF newStatus = "ACTIVE" THEN "warning" ELSE "info"))

RECURSIVE toggleDeviceLogs(_, _, _, _, _)
toggleDeviceLogs(prev, roomId, deviceId, i, lg) ==
  IF i > Len(prev) THEN lg
  ELSE toggleDeviceLogs(prev, roomId, deviceId, i + 1,
         IF prev[i].id # roomId THEN lg
         ELSE toggleDeviceLogsIn(prev[i].devices, deviceId, 1, lg))

\* trigger tests chained with else: the first match decides
viewModeAfter_firstWins(mode, text) ==
  IF includes(toLowerCase(text), PAT_power) THEN "POWER"
  ELSE IF includes(toLowerCase(text), PAT_water) THEN "WATER"
  ELSE IF includes(toLowerCase(text), PAT_thermal) THEN "THERMAL"
  ELSE mode

\* the three trigger tests of the completion callback, applied in order
viewModeAfter(mode, text) ==
  LET m1 == IF includes(toLowerCase(text), PAT_power) THEN "POWER" ELSE mode
      m2 == IF includes(toLowerCase(text), PAT_water) THEN "WATER" ELSE m1
  IN IF includes(toLowerCase(text), PAT_thermal) THEN "THERMAL" ELSE m2

\* generateSystemInsight: the serialized snapshot of the prompt
stateDescription(rs, status) ==
  [globalStatus |-> status,
   roomData |-> [i \in DOMAIN rs |->
     [name |-> rs[i].name, temp |-> rs[i].temp, power |-> rs[i].power,
      lights |-> rs[i].lights,
      devices |-> [j \in DOMAIN rs[i].devices |->
                     <<rs[i].devices[j].name, rs[i].devices[j].status>>]]]]

\* a generateSystemInsight without the fallback for an empty response text
insightOf_noFallback(outcome) ==
  IF outcome.kind = "throw" THEN TXT_CONNECTION
  ELSE outcome.text

\* generateSystemInsight: the string it resolves with
insightOf(outcome) ==
  IF outcome.kind = "throw" THEN TXT_CONNECTION
  ELSE IF outcome.text # <<>> THEN outcome.text
  ELSE TXT_NO_RESPONSE

\* render helpers activeRoom and selectedDevice, as indexes (0: undefined)
activeRoom ==
  FindFrom([k \in DOMAIN rooms |-> rooms[k].id = activeRoomId], 1)

selectedDevice ==
  IF activeRoom = 0 THEN 0
  ELSE LET devices == rooms[activeRoom].devices
       IN FindFrom([k \in DOMAIN devices |-> devices[k].id = selectedDeviceId], 1)

(***************************************************************************)
(* Initial state: the first render, before the effects of the mount run.   *)
(***************************************************************************)
Init ==
  /\ rooms = INITIAL_ROOMS
  /\ systemStatus = INITIAL_STATUS
  /\ activeRoomId = Null
  /\ selectedDeviceId = Null
  /\ viewMode = "STANDARD"
  /\ logs = INITIAL_LOGS
  /\ aiInput = <<>>
  /\ pending = <<>>
  /\ effectPending = TRUE
  /\ lastOp = Op("mount", Null, Null)
  /\ toggleHist = [d \in AllDeviceIds |-> "NONE"]
  /\ nLogged = 0

(***************************************************************************)
(* Effects, handlers and callbacks.  React runs a scheduled effect before  *)
(* it handles the next event, so every handler waits for ~effectPending.   *)
(***************************************************************************)
\* useEffect(..., [rooms])
PowerEffect ==
  /\ effectPending
  /\ systemStatus' = [systemStatus EXCEPT !.totalPower = total(rooms)]
  /\ effectPending' = FALSE
  /\ lastOp' = Op("useEffect", Null, Null)
  /\ UNCHANGED <<rooms, activeRoomId, selectedDeviceId, viewMode, logs, aiInput,
                 pending, toggleHist, nLogged>>

\* a light toggle after which the total is not recomputed
toggleRoomLight_noRecompute(id) ==
  /\ rooms' = toggleRoomLightRooms(rooms, id)
  /\ logs' = addLog(logs, "MANUAL_OVERRIDE", TXT_LIGHTS \o toUpperCase(id), "info")
  /\ lastOp' = Op("toggleRoomLight", id, Null)
  /\ nLogged' = nLogged + 1
  /\ UNCHANGED <<systemStatus, activeRoomId, selectedDeviceId, viewMode, aiInput,
                 pending, toggleHist, effectPending>>

toggleRoomLight(id) ==
  /\ rooms' = toggleRoomLightRooms(rooms, id)
  /\ logs' = addLog(logs, "MANUAL_OVERRIDE", TXT_LIGHTS \o toUpperCase(id), "info")
  /\ effectPending' = TRUE
  /\ lastOp' = Op("toggleRoomLight", id, Null)
  /\ nLogged' = nLogged + 1
  /\ UNCHANGED <<systemStatus, activeRoomId, selectedDeviceId, viewMode, aiInput,
                 pending, toggleHist>>

\* the status of the device a toggleDevice call flips, "NONE" when there is none
StatusOf(rs, roomId, deviceId) ==
  LET i == FindFrom([k \in DOMAIN rs |-> rs[k].id = roomId], 1)
      j == IF i = 0 THEN 0
           ELSE FindFrom([k \in DOMAIN rs[i].devices |->
                            rs[i].devices[k].id = deviceId], 1)
  IN IF j = 0 THEN "NONE" ELSE rs[i].devices[j].status

\* a toggle that looks for the device in every room
toggleDevice_anyRoom(roomId, deviceId) ==
  LET k == FindFrom([i \in DOMAIN rooms |->
                       deviceId \in DeviceIds(rooms[i])], 1)
      owner == IF k = 0 THEN roomId ELSE rooms[k].id
  IN /\ rooms' = toggleDeviceRooms(rooms, owner, deviceId)
     /\ logs' = toggleDeviceLogs(rooms, owner, deviceId, 1, logs)
     /\ effectPending' = TRUE
     /\ lastOp' = Op("toggleDevice", roomId, deviceId)
     /\ toggleHist' = [d \in DOMAIN toggleHist |->
                         IF d = deviceId /\ StatusOf(rooms, owner, deviceId) # "NONE"
                           THEN StatusOf(rooms, owner, deviceId)
                           ELSE toggleHist[d]]
     /\ nLogged' = nLogged + 1
     /\ UNCHANGED <<systemStatus, activeRoomId, selectedDeviceId, viewMode,
                    aiInput, pending>>

toggleDevice(roomId, deviceId) ==
  /\ rooms' = toggleDeviceRooms(rooms, roomId, deviceId)
  /\ logs' = toggleDeviceLogs(rooms, roomId, deviceId, 1, logs)
  /\ effectPending' = TRUE
  /\ lastOp' = Op("toggleDevice", roomId, deviceId)
  /\ toggleHist' = [d \in DOMAIN toggleHist |->
                      IF d = deviceId /\ StatusOf(rooms, roomId, deviceId) # "NONE"
                        THEN StatusOf(rooms, roomId, deviceId)
                        ELSE toggleHist[d]]
  /\ nLogged' = nLogged + 1
  /\ UNCHANGED <<systemStatus, activeRoomId, selectedDeviceId, viewMode, aiInput,
                 pending>>

\* a toggle that can only disarm
newSecurityStatus_disarmOnly(security) == "DISARMED"

\* toggleSecurity: the security mode it sets
newSecurityStatus(security) == IF security = "ARMED" THEN "DISARMED" ELSE "ARMED"

\* toggleSecurity: its addLog call
toggleSecurityLogs(prev, newStatus) ==
  addLog(prev, "SECURITY", TXT_SYSTEM \o StatusText(newStatus),
         IF newStatus = "ARMED" THEN "info" ELSE "warning")

toggleSecurity ==
  LET newStatus == newSecurityStatus(systemStatus.security) IN
  /\ systemStatus' = [systemStatus EXCEPT !.security = newStatus]
  /\ logs' = toggleSecurityLogs(logs, newStatus)
  /\ lastOp' = Op("toggleSecurity", Null, Null)
  /\ nLogged' = nLogged + 1
  /\ UNCHANGED <<rooms, activeRoomId, selectedDeviceId, viewMode, aiInput, pending,
                 effectPending, toggleHist>>

\* handleAICommand up to the setTimeout call; the callback closes over the
\* rooms and systemStatus of the render the handler belongs to
\* a submission that logs nothing until the response arrives
handleAICommand_quiet ==
  /\ lastOp' = Op("handleAICommand", aiInput, Null)
  /\ IF trim(aiInput) = <<>>
       THEN UNCHANGED <<rooms, systemStatus, activeRoomId, selectedDeviceId,
                        viewMode, logs, aiInput, pending, effectPending,
                        toggleHist, nLogged>>
       ELSE LET userQuery == aiInput IN
            /\ aiInput' = <<>>
            /\ systemStatus' = [systemStatus EXCEPT !.aiStatus = "ANALYZING"]
            /\ pending' = Append(pending,
                 [userQuery |-> userQuery, rooms |-> rooms,
                  systemStatus |-> systemStatus, stage |-> "timer",
                  prompt |-> Null])
            /\ nLogged' = nLogged + 1
            /\ UNCHANGED <<rooms, activeRoomId, selectedDeviceId, viewMode,
                           logs, effectPending, toggleHist>>

handleAICommand ==
  /\ lastOp' = Op("handleAICommand", aiInput, Null)
  /\ IF trim(aiInput) = <<>>
       THEN UNCHANGED <<rooms, systemStatus, activeRoomId, selectedDeviceId,
                        viewMode, logs, aiInput, pending, effectPending,
                        toggleHist, nLogged>>
       ELSE LET userQuery == aiInput IN
            /\ aiInput' = <<>>
            /\ systemStatus' = [systemStatus EXCEPT !.aiStatus = "ANALYZING"]
            /\ logs' = addLog(logs, "USER", userQuery, "info")
            /\ pending' = Append(pending,
                 [userQuery |-> userQuery, rooms |-> rooms,
                  systemStatus |-> systemStatus, stage |-> "timer",
                  prompt |-> Null])
            /\ nLogged' = nLogged + 1
            /\ UNCHANGED <<rooms, activeRoomId, selectedDeviceId, viewMode,
                           effectPending, toggleHist>>

\* a timer callback that serializes the state of the moment of the call
TimerFires_liveState ==
  LET i == FindFrom([k \in DOMAIN pending |-> pending[k].stage = "timer"], 1)
  IN /\ ~effectPending
     /\ i # 0
     /\ pending' = [pending EXCEPT ![i] =
          [pending[i] EXCEPT
             !.stage = "awaiting",
             !.prompt = [state |-> stateDescription(rooms, systemStatus),
                         query |-> pending[i].userQuery]]]
     /\ lastOp' = Op("generateSystemInsight", pending[i].userQuery, Null)
     /\ UNCHANGED <<rooms, systemStatus, activeRoomId, selectedDeviceId, viewMode,
                    logs, aiInput, effectPending, toggleHist, nLogged>>

\* a timer callback that drops a request whose snapshot is out of date
TimerFires_dropStale ==
  LET i == FindFrom([k \in DOMAIN pending |-> pending[k].stage = "timer"], 1)
  IN /\ ~effectPending
     /\ i # 0
     /\ pending[i].rooms = rooms
     /\ pending' = [pending EXCEPT ![i] =
          [pending[i] EXCEPT
             !.stage = "awaiting",
             !.prompt = [state |-> stateDescription(pending[i].rooms,
                                                    pending[i].systemStatus),
                         query |-> pending[i].userQuery]]]
     /\ lastOp' = Op("generateSystemInsight", pending[i].userQuery, Null)
     /\ UNCHANGED <<rooms, systemStatus, activeRoomId, selectedDeviceId, viewMode,
                    logs, aiInput, effectPending, toggleHist, nLogged>>

\* the setTimeout callback up to its await: generateSystemInsight builds the
\* prompt and calls the collaborator
TimerFires ==
  LET i == FindFrom([k \in DOMAIN pending |-> pending[k].stage = "timer"], 1)
  IN /\ ~effectPending
     /\ i # 0
     /\ pending' = [pending EXCEPT ![i] =
          [pending[i] EXCEPT
             !.stage = "awaiting",
             !.prompt = [state |-> stateDescription(pending[i].rooms,
                                                    pending[i].systemStatus),
                         query |-> pending[i].userQuery]]]
     /\ lastOp' = Op("generateSystemInsight", pending[i].userQuery, Null)
     /\ UNCHANGED <<rooms, systemStatus, activeRoomId, selectedDeviceId, viewMode,
                    logs, aiInput, effectPending, toggleHist, nLogged>>

RemoveAt(seq, i) == SubSeq(seq, 1, i - 1) \o SubSeq(seq, i + 1, Len(seq))

\* a completion that skips the trigger when the rooms changed while it waited
Respond_ifCurrent(i, outcome) ==
  /\ ~effectPending
  /\ i \in DOMAIN pending
  /\ pending[i].stage = "awaiting"
  /\ LET userQuery == pending[i].userQuery
         response == insightOf(outcome)
     IN /\ systemStatus' = [systemStatus EXCEPT !.aiStatus = "IDLE"]
        /\ logs' = addLog(logs, "AERO-12", response, "ai")
        /\ viewMode' = IF pending[i].rooms = rooms
                          THEN viewModeAfter(viewMode, userQuery)
                          ELSE viewMode
        /\ lastOp' = Op("response", userQuery, response)
  /\ pending' = SubSeq(pending, 1, i - 1) \o SubSeq(pending, i + 1, Len(pending))
  /\ UNCHANGED <<rooms, activeRoomId, selectedDeviceId, aiInput, effectPending,
                 toggleHist, nLogged>>

\* a completion that writes back the status its closure holds
Respond_staleStatus(i, outcome) ==
  /\ ~effectPending
  /\ i \in DOMAIN pending
  /\ pending[i].stage = "awaiting"
  /\ LET userQuery == pending[i].userQuery
         response == insightOf(outcome)
     IN /\ systemStatus' = [pending[i].systemStatus EXCEPT !.aiStatus = "IDLE"]
        /\ logs' = addLog(logs, "AERO-12", response, "ai")
        /\ viewMode' = viewModeAfter(viewMode, userQuery)
        /\ lastOp' = Op("response", userQuery, response)
  /\ pending' = SubSeq(pending, 1, i - 1) \o SubSeq(pending, i + 1, Len(pending))
  /\ UNCHANGED <<rooms, activeRoomId, selectedDeviceId, aiInput, effectPending,
                 toggleHist, nLogged>>

\* a completion that scans the returned text
Respond_scanResponse(i, outcome) ==
  /\ ~effectPending
  /\ i \in DOMAIN pending
  /\ pending[i].stage = "awaiting"
  /\ LET userQuery == pending[i].userQuery
         response == insightOf(outcome)
     IN /\ systemStatus' = [systemStatus EXCEPT !.aiStatus = "IDLE"]
        /\ logs' = addLog(logs, "AERO-12", response, "ai")
        /\ viewMode' = viewModeAfter(viewMode, response)
        /\ lastOp' = Op("response", userQuery, response)
  /\ pending' = SubSeq(pending, 1, i - 1) \o SubSeq(pending, i + 1, Len(pending))
  /\ UNCHANGED <<rooms, activeRoomId, selectedDeviceId, aiInput, effectPending,
                 toggleHist, nLogged>>

\* the rest of the setTimeout callback, once generateSystemInsight resolves
Respond(i, outcome) ==
  /\ ~effectPending
  /\ i \in DOMAIN pending
  /\ pending[i].stage = "awaiting"
  /\ LET userQuery == pending[i].userQuery
         response == insightOf(outcome)
     IN /\ systemStatus' = [systemStatus EXCEPT !.aiStatus = "IDLE"]
        /\ logs' = addLog(logs, "AERO-12", response, "ai")
        /\ viewMode' = viewModeAfter(viewMode, userQuery)
        /\ lastOp' = Op("response", userQuery, response)
  /\ pending' = RemoveAt(pending, i)
  /\ UNCHANGED <<rooms, activeRoomId, selectedDeviceId, aiInput, effectPending,
                 toggleHist, nLogged>>

\* a selection that clears the current one when no room owns the device
handleDeviceSelect_clearOnMiss(deviceId) ==
  LET room == FindFrom([k \in DOMAIN rooms |->
                          \E j \in DOMAIN rooms[k].devices :
                            rooms[k].devices[j].id = deviceId], 1)
  IN /\ IF room # 0
          THEN /\ activeRoomId' = rooms[room].id
               /\ selectedDeviceId' = deviceId
          ELSE /\ activeRoomId' = Null
               /\ selectedDeviceId' = Null
     /\ lastOp' = Op("handleDeviceSelect", deviceId, Null)
     /\ UNCHANGED <<rooms, systemStatus, viewMode, logs, aiInput, pending,
                    effectPending, toggleHist, nLogged>>

\* a selection that forgets the room
handleDeviceSelect_deviceOnly(deviceId) ==
  LET room == FindFrom([k \in DOMAIN rooms |->
                          \E j \in DOMAIN rooms[k].devices :
                            rooms[k].devices[j].id = deviceId], 1)
  IN /\ IF room # 0
          THEN /\ selectedDeviceId' = deviceId
               /\ UNCHANGED activeRoomId
          ELSE UNCHANGED <<activeRoomId, selectedDeviceId>>
     /\ lastOp' = Op("handleDeviceSelect", deviceId, Null)
     /\ UNCHANGED <<rooms, systemStatus, viewMode, logs, aiInput, pending,
                    effectPending, toggleHist, nLogged>>

handleDeviceSelect(deviceId) ==
  LET room == FindFrom([k \in DOMAIN rooms |->
                          \E j \in DOMAIN rooms[k].devices :
                            rooms[k].devices[j].id = deviceId], 1)
  IN /\ IF room # 0
          THEN /\ activeRoomId' = rooms[room].id
               /\ selectedDeviceId' = deviceId
          ELSE UNCHANGED <<activeRoomId, selectedDeviceId>>
     /\ lastOp' = Op("handleDeviceSelect", deviceId, Null)
     /\ UNCHANGED <<rooms, systemStatus, viewMode, logs, aiInput, pending,
                    effectPending, toggleHist, nLogged>>

(***************************************************************************)
(* User events: the controls that are rendered and enabled, and the        *)
(* handler each one calls.                                                 *)
(***************************************************************************)
\* a room selector whose button of the active room deselects it
ClickRoom_deselect(id) ==
  /\ ~effectPending
  /\ activeRoomId' = IF activeRoomId = id THEN Null ELSE id
  /\ selectedDeviceId' = Null
  /\ lastOp' = Op("selectRoom", id, Null)
  /\ UNCHANGED <<rooms, systemStatus, viewMode, logs, aiInput, pending,
                 effectPending, toggleHist, nLogged>>

\* a button of the room selector
ClickRoom(id) ==
  /\ ~effectPending
  /\ activeRoomId' = id
  /\ selectedDeviceId' = Null
  /\ lastOp' = Op("selectRoom", id, Null)
  /\ UNCHANGED <<rooms, systemStatus, viewMode, logs, aiInput, pending,
                 effectPending, toggleHist, nLogged>>

\* a device list that shows the devices of every room
ClickDeviceRow_anyRoom(deviceId) ==
  /\ ~effectPending
  /\ activeRoom # 0 /\ selectedDevice = 0
  /\ selectedDeviceId' = deviceId
  /\ lastOp' = Op("inline", Null, Null)
  /\ UNCHANGED <<rooms, systemStatus, activeRoomId, viewMode, logs, aiInput,
                 pending, effectPending, toggleHist, nLogged>>

\* a row of the device list of the room controls
ClickDeviceRow(deviceId) ==
  /\ ~effectPending
  /\ activeRoom # 0 /\ selectedDevice = 0
  /\ deviceId \in DeviceIds(rooms[activeRoom])
  /\ selectedDeviceId' = deviceId
  /\ lastOp' = Op("inline", Null, Null)
  /\ UNCHANGED <<rooms, systemStatus, activeRoomId, viewMode, logs, aiInput,
                 pending, effectPending, toggleHist, nLogged>>

\* a [BACK] that leaves the room as well
ClickBack_toRooms ==
  /\ ~effectPending
  /\ selectedDevice # 0
  /\ selectedDeviceId' = Null
  /\ activeRoomId' = Null
  /\ lastOp' = Op("back", Null, Null)
  /\ UNCHANGED <<rooms, systemStatus, viewMode, logs, aiInput,
                 pending, effectPending, toggleHist, nLogged>>

\* [BACK] of the device detail
ClickBack ==
  /\ ~effectPending
  /\ selectedDevice # 0
  /\ selectedDeviceId' = Null
  /\ lastOp' = Op("back", Null, Null)
  /\ UNCHANGED <<rooms, systemStatus, activeRoomId, viewMode, logs, aiInput,
                 pending, effectPending, toggleHist, nLogged>>

\* LIGHTS ON / LIGHTS OFF of the room controls
ClickLights ==
  /\ ~effectPending
  /\ nLogged < MaxLogged
  /\ activeRoom # 0 /\ selectedDevice = 0
  /\ toggleRoomLight(rooms[activeRoom].id)

\* the play/stop button of a device row, or POWER DOWN / INITIATE of the detail
ClickDeviceToggle(deviceId) ==
  /\ ~effectPending
  /\ nLogged < MaxLogged
  /\ activeRoom # 0
  /\ IF selectedDevice = 0
       THEN deviceId \in DeviceIds(rooms[activeRoom])
       ELSE deviceId = rooms[activeRoom].devices[selectedDevice].id
  /\ toggleDevice(rooms[activeRoom].id, deviceId)

\* a device mesh of the 3D scene
ClickSceneDevice(deviceId) ==
  /\ ~effectPending
  /\ handleDeviceSelect(deviceId)

\* a view-mode button
ClickViewMode(mode) ==
  /\ ~effectPending
  /\ viewMode' = mode
  /\ lastOp' = Op("inline", Null, Null)
  /\ UNCHANGED <<rooms, systemStatus, activeRoomId, selectedDeviceId, logs,
                 aiInput, pending, effectPending, toggleHist, nLogged>>

\* typing into the command input, which is disabled while ANALYZING
TypeCommand(text) ==
  /\ ~effectPending
  /\ systemStatus.aiStatus # "ANALYZING"
  /\ aiInput' = text
  /\ lastOp' = Op("inline", Null, Null)
  /\ UNCHANGED <<rooms, systemStatus, activeRoomId, selectedDeviceId, viewMode,
                 logs, pending, effectPending, toggleHist, nLogged>>

\* DIAGNOSTICS
ClickDiagnostics ==
  /\ ~effectPending
  /\ aiInput' = TXT_DIAGNOSTIC
  /\ lastOp' = Op("inline", Null, Null)
  /\ UNCHANGED <<rooms, systemStatus, activeRoomId, selectedDeviceId, viewMode,
                 logs, pending, effectPending, toggleHist, nLogged>>

\* controls that stay enabled
CommandEnabled_always == TRUE

\* the send button, or Enter in the command input; both are disabled while
\* ANALYZING
CommandEnabled == systemStatus.aiStatus # "ANALYZING"

SubmitCommand ==
  /\ ~effectPending
  /\ nLogged < MaxLogged
  /\ CommandEnabled
  /\ handleAICommand

\* EMERGENCY STOP
ClickEmergencyStop ==
  /\ ~effectPending
  /\ nLogged < MaxLogged
  /\ toggleSecurity

\* the collaborator's promise settles, one way or another
Settle ==
  \E i \in DOMAIN pending : \E outcome \in CollaboratorOutcomes : Respond(i, outcome)

Next ==
  \/ PowerEffect
  \/ \E id \in UserRooms : ClickRoom(id)
  \/ \E d \in AllDeviceIds : ClickDeviceRow(d)
  \/ ClickBack
  \/ ClickLights
  \/ \E d \in AllDeviceIds : ClickDeviceToggle(d)
  \/ \E d \in UserSceneDevices : ClickSceneDevice(d)
  \/ \E mode \in UserViewModes : ClickViewMode(mode)
  \/ \E text \in BlankCommands : TypeCommand(text)
  \/ ClickDiagnostics
  \/ SubmitCommand
  \/ ClickEmergencyStop
  \/ TimerFires
  \/ Settle

Spec == Init /\ [][Next]_vars

(***************************************************************************)
(* The command dispatcher among the user events that change what a pending *)
(* command closed over (rooms, system status, view mode, input), under     *)
(* fair scheduling: a scheduled effect runs, a timer fires, and the        *)
(* collaborator's promise settles.                                         *)
(***************************************************************************)
NextLive ==
  \/ PowerEffect
  \/ \E id \in UserRooms : ClickRoom(id)
  \/ ClickLights
  \/ \E mode \in UserViewModes : ClickViewMode(mode)
  \/ \E text \in TypedCommands : TypeCommand(text)
  \/ SubmitCommand
  \/ ClickEmergencyStop
  \/ TimerFires
  \/ Settle

SpecLive ==
  /\ Init
  /\ [][NextLive]_vars
  /\ WF_vars(PowerEffect)
  /\ WF_vars(TimerFires)
  /\ WF_vars(Settle)

(***************************************************************************)
(* The program started from the state EMERGENCY STOP clicked 2 * MaxPrefill *)
(* times leaves it in, where the log is (nearly) full.                     *)
(***************************************************************************)
RECURSIVE AfterSecurityToggles(_, _)
AfterSecurityToggles(n, st) ==
  IF n = 0 THEN st
  ELSE LET newStatus == newSecurityStatus(st.security)
       IN AfterSecurityToggles(n - 1,
            [security |-> newStatus, logs |-> toggleSecurityLogs(st.logs, newStatus)])

InitLog ==
  LET st == AfterSecurityToggles(2 * MaxPrefill,
              [security |-> INITIAL_STATUS.security, logs |-> INITIAL_LOGS])
  IN /\ rooms = INITIAL_ROOMS
     /\ systemStatus = [INITIAL_STATUS EXCEPT !.security = st.security,
                                              !.totalPower = total(INITIAL_ROOMS)]
     /\ activeRoomId = Null
     /\ selectedDeviceId = Null
     /\ viewMode = "STANDARD"
     /\ logs = st.logs
     /\ aiInput = <<>>
     /\ pending = <<>>
     /\ effectPending = FALSE
     /\ lastOp = Op("toggleSecurity", Null, Null)
     /\ toggleHist = [d \in AllDeviceIds |-> "NONE"]
     /\ nLogged = 0

SpecLog == InitLog /\ [][Next]_vars

(***************************************************************************)
(* The effect on [rooms] as a function of the rooms: it is applied to      *)
(* every combination of light flags and device statuses the toggles reach. *)
(***************************************************************************)
RoomCombination(lit, flipped) ==
  [i \in DOMAIN INITIAL_ROOMS |->
     [INITIAL_ROOMS[i] EXCEPT
        !.lights = (i \in lit),
        !.devices = [j \in DOMAIN INITIAL_ROOMS[i].devices |->
           LET d == INITIAL_ROOMS[i].devices[j] IN
           IF d.id \in flipped
             THEN [d EXCEPT !.status = IF d.status = "IDLE" THEN "ACTIVE" ELSE "IDLE"]
             ELSE d]]]

InitPower ==
  /\ \E lit \in SUBSET DOMAIN INITIAL_ROOMS : \E flipped \in SUBSET AllDeviceIds :
        rooms = RoomCombination(lit, flipped)
  /\ systemStatus = INITIAL_STATUS
  /\ activeRoomId = Null
  /\ selectedDeviceId = Null
  /\ viewMode = "STANDARD"
  /\ logs = INITIAL_LOGS
  /\ aiInput = <<>>
  /\ pending = <<>>
  /\ effectPending = TRUE
  /\ lastOp = Op("setRooms", Null, Null)
  /\ toggleHist = [d \in AllDeviceIds |-> "NONE"]
  /\ nLogged = 0

NextPower == PowerEffect

SpecPower == InitPower /\ [][NextPower]_vars

(***************************************************************************)
(* The command dispatcher alone: a command text has been typed in some     *)
(* view mode; it is submitted, the timer fires and the collaborator        *)
(* answers.                                                                *)
(***************************************************************************)
InitCmd ==
  /\ rooms = INITIAL_ROOMS
  /\ systemStatus = [INITIAL_STATUS EXCEPT !.totalPower = total(INITIAL_ROOMS)]
  /\ activeRoomId = Null
  /\ selectedDeviceId = Null
  /\ viewMode \in {VIEW_MODES[i] : i \in DOMAIN VIEW_MODES}
  /\ aiInput \in CommandTexts
  /\ logs = INITIAL_LOGS
  /\ pending = <<>>
  /\ effectPending = FALSE
  /\ lastOp = Op("inline", Null, Null)
  /\ toggleHist = [d \in AllDeviceIds |-> "NONE"]
  /\ nLogged = 0

NextCmd ==
  \/ SubmitCommand
  \/ TimerFires
  \/ Settle

SpecCmd == InitCmd /\ [][NextCmd]_vars

(***************************************************************************)
(* The handlers called with any arguments: ids of rooms and devices that   *)
(* exist, in matching and non-matching pairs, and ids that name nothing.   *)
(***************************************************************************)
UNKNOWN_ROOM == <<"a", "t", "t", "i", "c">>

UNKNOWN_DEVICE == <<"s", "p", "e", "a", "k", "e", "r">>

CallRoomIds == UserRooms \cup {ID_living, UNKNOWN_ROOM}

CallDeviceIds ==
  UNION {DeviceIds(INITIAL_ROOMS[i]) : i \in UserRoomIndexes}
    \cup {ID_tv1, UNKNOWN_DEVICE}

CallToggleRoomLight(id) ==
  /\ ~effectPending
  /\ nLogged < MaxLogged
  /\ toggleRoomLight(id)

CallToggleDevice(roomId, deviceId) ==
  /\ ~effectPending
  /\ nLogged < MaxLogged
  /\ toggleDevice(roomId, deviceId)

CallDeviceSelect(deviceId) ==
  /\ ~effectPending
  /\ handleDeviceSelect(deviceId)

NextCalls ==
  \/ PowerEffect
  \/ \E id \in CallRoomIds : CallToggleRoomLight(id)
  \/ \E roomId \in CallRoomIds : \E deviceId \in CallDeviceIds :
       CallToggleDevice(roomId, deviceId)
  \/ \E deviceId \in CallDeviceIds : CallDeviceSelect(deviceId)

SpecCalls == Init /\ [][NextCalls]_vars

(***************************************************************************)
(* The selection controls over all rooms: the room selector, the device    *)
(* rows, [BACK], the device meshes of the scene, and the device toggles of *)
(* the room controls and of the device detail.                             *)
(***************************************************************************)
AllRoomIds == {INITIAL_ROOMS[i].id : i \in DOMAIN INITIAL_ROOMS}

NextSelect ==
  \/ PowerEffect
  \/ \E id \in AllRoomIds : ClickRoom(id)
  \/ \E deviceId \in AllDeviceIds : ClickDeviceRow(deviceId)
  \/ ClickBack
  \/ \E deviceId \in SCENE_DEVICES : ClickSceneDevice(deviceId)
  \/ \E deviceId \in AllDeviceIds : ClickDeviceToggle(deviceId)

SpecSelect == Init /\ [][NextSelect]_vars

(***************************************************************************)
(* Properties.                                                             *)
(***************************************************************************)
\* sum of f over the finite set S, in no particular order
RECURSIVE SumOver(_, _)
SumOver(f, S) ==
  IF S = {} THEN 0
  ELSE LET x == CHOOSE x \in S : TRUE IN f[x] + SumOver(f, S \ {x})

\* the aggregate power rule: per room, its power when lit and 5 W otherwise,
\* plus per device its power draw when ACTIVE and 2 W otherwise
PowerRule(rs) ==
  SumOver([i \in DOMAIN rs |->
             (IF rs[i].lights THEN rs[i].power ELSE 5)
             + SumOver([j \in DOMAIN rs[i].devices |->
                          IF rs[i].devices[j].status = "ACTIVE"
                            THEN rs[i].devices[j].powerDraw
                            ELSE 2],
                       DOMAIN rs[i].devices)],
          DOMAIN rs)

\* C1: the total the recomputation writes equals the aggregate power rule of
\* the rooms it ran on, for every combination of light flags and device
\* statuses (SpecPower).
C1_TotalPowerRule ==
  lastOp.op = "useEffect" => systemStatus.totalPower = PowerRule(rooms)

\* C1 witness: only the living room is lit (120 W) and only its TV is ACTIVE
\* (80 W); the four dark rooms add 5 W each and the six idle devices 2 W each.
C1_Witness ==
  /\ lastOp.op = "useEffect"
  /\ \A i \in DOMAIN rooms : rooms[i].lights <=> (i = 1)
  /\ \A i \in DOMAIN rooms : \A j \in DOMAIN rooms[i].devices :
       (rooms[i].devices[j].status = "ACTIVE") <=> (i = 1)
  /\ systemStatus.totalPower = 200 + 4 * 5 + 6 * 2

\* C2 as stated: in every reachable state the exposed total equals the
\* aggregate power rule of the current rooms.
C2_TotalAlwaysCurrent ==
  systemStatus.totalPower = PowerRule(rooms)

\* C2 amended: whenever the recomputation scheduled by the mount or by the
\* last room mutation has run, the exposed total equals the aggregate power
\* rule of the current rooms.
C2_TotalCurrentAfterEffect ==
  ~effectPending => systemStatus.totalPower = PowerRule(rooms)

\* C2 witness: a toggle has changed the rooms and the effect has run since.
C2_Witness ==
  /\ ~effectPending
  /\ lastOp.op = "useEffect"
  /\ rooms # INITIAL_ROOMS
  /\ systemStatus.totalPower # total(INITIAL_ROOMS)

\* C3: the log never holds more than 16 entries (SpecLog).
C3_LogBounded == Len(logs) <= 16

\* C3 witness: the log is full and its newest entries come from a device
\* toggle and a command completion appended to the already full log.
C3_Witness ==
  /\ Len(logs) = 16
  /\ logs[15].source = "DEVICE_CTRL"
  /\ logs[16].source = "AERO-12"

\* the status of the device with identity d
DeviceStatus(rs, d) ==
  LET i == CHOOSE i \in DOMAIN rs : d \in DeviceIds(rs[i])
      j == CHOOSE j \in DOMAIN rs[i].devices : rs[i].devices[j].id = d
  IN rs[i].devices[j].status

\* the entries an append keeps of a log
KeptOf(old) ==
  IF Len(old) < 16 THEN old ELSE SubSeq(old, Len(old) - 14, Len(old))

\* new is old with exactly one entry appended
OneAppended(old, new) ==
  /\ Len(new) = Len(KeptOf(old)) + 1
  /\ SubSeq(new, 1, Len(new) - 1) = KeptOf(old)

\* C4: every toggleDevice appends exactly one log entry, and a toggleDevice
\* of a device that was toggled before gives it the status it had before
\* the previous toggle.
C4_ToggleTwice ==
  [][lastOp'.op = "toggleDevice" =>
       /\ OneAppended(logs, logs')
       /\ logs'[Len(logs')].source = "DEVICE_CTRL"
       /\ toggleHist[lastOp'.b] # "NONE" =>
            DeviceStatus(rooms', lastOp'.b) = toggleHist[lastOp'.b]]_vars

\* C4 witness: the washer, IDLE at the start, has been toggled twice in a row
\* and is IDLE again, with the two entries at the end of the log.
C4_Witness ==
  /\ lastOp = Op("toggleDevice", ID_garage, ID_washer)
  /\ toggleHist[ID_washer] = "ACTIVE"
  /\ DeviceStatus(rooms, ID_washer) = "IDLE"
  /\ Len(logs) = Len(INITIAL_LOGS) + 2
  /\ logs[Len(logs) - 1].source = "DEVICE_CTRL"
  /\ logs[Len(logs)].source = "DEVICE_CTRL"

IsBlank(text) == \A i \in DOMAIN text : text[i] \in {" ", "\t"}

\* C6: submitting an empty or white-space-only command changes nothing of
\* the program's state.
C6_BlankCommandIgnored ==
  [][(lastOp'.op = "handleAICommand" /\ IsBlank(aiInput)) =>
       UNCHANGED progVars]_vars

\* C6 witness: a command of two spaces has been submitted; it is still in the
\* input, nothing is in flight and the log is as it was at the start.
C6_Witness ==
  /\ lastOp = Op("handleAICommand", CMD_BLANK, Null)
  /\ aiInput = CMD_BLANK
  /\ pending = <<>>
  /\ systemStatus.aiStatus = "IDLE"
  /\ logs = INITIAL_LOGS

\* two characters that are the same letter in either case
SameLetter(a, b) ==
  \/ a = b
  \/ \E i \in DOMAIN LowerLetters : {a, b} = {LowerLetters[i], UpperLetters[i]}

\* text contains pat, letter case aside
ContainsAnyCase(text, pat) ==
  \E k \in 0..(Len(text) - Len(pat)) :
    \A j \in DOMAIN pat : SameLetter(text[k + j], pat[j])

Triggers == {PAT_power, PAT_water, PAT_thermal}

\* pat is the one trigger text contains
OnlyTrigger(text, pat) ==
  \A t \in Triggers : ContainsAnyCase(text, t) <=> (t = pat)

\* C7: once the response of a command resolves, the view mode is POWER when
\* the command contains "view power" in any case and no other trigger, and
\* likewise WATER for "view water" and THERMAL for "view thermal" (SpecCmd).
C7_TriggerSetsView ==
  lastOp.op = "response" =>
    /\ OnlyTrigger(lastOp.a, PAT_power) => viewMode = "POWER"
    /\ OnlyTrigger(lastOp.a, PAT_water) => viewMode = "WATER"
    /\ OnlyTrigger(lastOp.a, PAT_thermal) => viewMode = "THERMAL"

\* C7 witness: the response of 'View Power' has resolved and the view mode is
\* POWER.
C7_Witness ==
  /\ lastOp.op = "response"
  /\ lastOp.a = CMD_POWER
  /\ viewMode = "POWER"

\* the view mode the scan of a text with at most one trigger gives
ScanSets(text, before, after) ==
  /\ OnlyTrigger(text, PAT_power) => after = "POWER"
  /\ OnlyTrigger(text, PAT_water) => after = "WATER"
  /\ OnlyTrigger(text, PAT_thermal) => after = "THERMAL"
  /\ (\A t \in Triggers : ~ContainsAnyCase(text, t)) => after = before

\* C8 as stated: on completion the view mode follows the triggers of the
\* text the collaborator returned, and stays when that text has none.
C8_ScanReturnedText ==
  [][lastOp'.op = "response" => ScanSets(lastOp'.b, viewMode, viewMode')]_vars

\* C8 amended: on completion the view mode follows the triggers of the
\* submitted command text, and stays when the command has none, whatever
\* the collaborator returned (SpecCmd).
C8_ScanCommandText ==
  [][lastOp'.op = "response" => ScanSets(lastOp'.a, viewMode, viewMode')]_vars

\* C8 witness: the diagnostics command got a reply that holds 'View Thermal'
\* and the view mode is still WIFI.
C8_Witness ==
  /\ lastOp = Op("response", TXT_DIAGNOSTIC, TXT_REPLY_THERMAL)
  /\ viewMode = "WIFI"

\* C9: at most one command is in flight, and while one is the AI status is
\* ANALYZING, which disables the command input and the send button.
C9_OneInFlight ==
  /\ Len(pending) <= 1
  /\ pending # <<>> => systemStatus.aiStatus = "ANALYZING"

\* C9 witness: a command is in flight, the user has toggled security and put
\* the next command into the input, and the status is still ANALYZING.
C9_Witness ==
  /\ Len(pending) = 1
  /\ aiInput = TXT_DIAGNOSTIC
  /\ systemStatus.security = "DISARMED"
  /\ systemStatus.aiStatus = "ANALYZING"

\* C10: a command in flight eventually completes, whatever the user does in
\* the meantime, and its completion sets the AI status to IDLE and appends
\* exactly one entry of type 'ai' that carries the text generateSystemInsight
\* resolved with (SpecLive).
C10_CommandCompletes ==
  /\ (pending # <<>>)
       ~> (lastOp.op = "response" /\ pending = <<>>
             /\ systemStatus.aiStatus = "IDLE")
  /\ [][lastOp'.op = "response" =>
          /\ systemStatus'.aiStatus = "IDLE"
          /\ OneAppended(logs, logs')
          /\ logs'[Len(logs')].type = "ai"
          /\ logs'[Len(logs')].message = lastOp'.b
          /\ lastOp'.b \in {TXT_REPLY_THERMAL, TXT_NO_RESPONSE, TXT_CONNECTION}]_vars

\* C10 witness: the collaborator failed, the lights of the garage were
\* switched on meanwhile, and the command has completed with the fixed error
\* text as the newest log entry.
C10_Witness ==
  /\ lastOp.op = "response"
  /\ lastOp.b = TXT_CONNECTION
  /\ pending = <<>>
  /\ systemStatus.aiStatus = "IDLE"
  /\ rooms # INITIAL_ROOMS
  /\ logs[Len(logs)] = [source |-> "AERO-12", message |-> TXT_CONNECTION, type |-> "ai"]

(***************************************************************************)
(* C11: when the text-generation call throws, generateSystemInsight        *)
(* resolves with "CONNECTION ERROR: UNABLE TO REACH AI CORE.", and when it  *)
(* returns no content, with "SYSTEM ERROR: NO RESPONSE DATA"; in both cases *)
(* the completion logs that string as the 'ai' entry, resets the AI status  *)
(* to IDLE and leaves rooms, security, selection and total power as they    *)
(* were.                                                                    *)
(***************************************************************************)
FailureText(outcome) ==
  IF outcome.kind = "throw" THEN TXT_CONNECTION ELSE TXT_NO_RESPONSE

C11_FailureAbsorbed ==
  [][\A i \in DOMAIN pending : \A outcome \in CollaboratorOutcomes :
       (Respond(i, outcome) /\ (outcome.kind = "throw" \/ outcome.text = <<>>))
         => /\ logs'[Len(logs')] = [source |-> "AERO-12",
                                    message |-> FailureText(outcome),
                                    type |-> "ai"]
            /\ systemStatus'.aiStatus = "IDLE"
            /\ rooms' = rooms
            /\ systemStatus'.security = systemStatus.security
            /\ systemStatus'.totalPower = systemStatus.totalPower
            /\ activeRoomId' = activeRoomId
            /\ selectedDeviceId' = selectedDeviceId]_vars

C11_Witness ==
  /\ lastOp.op = "response"
  /\ lastOp.b = TXT_NO_RESPONSE
  /\ systemStatus.aiStatus = "IDLE"
  /\ systemStatus.security = "DISARMED"
  /\ activeRoomId # Null

(***************************************************************************)
(* C12: submitting a non-blank command at once appends one USER entry      *)
(* carrying the raw text and sets the AI status to ANALYZING, with the     *)
(* collaborator not yet invoked; the collaborator is invoked later, for a  *)
(* submitted command; and the 'ai' entry of the response is the newest     *)
(* entry, after the USER entry of that command (which is still in the log  *)
(* as long as nothing has been evicted).                                   *)
(***************************************************************************)
UserEntry(text) == [source |-> "USER", message |-> text, type |-> "info"]

C12_UserEntryFirst ==
  [][/\ (lastOp'.op = "handleAICommand" /\ ~IsBlank(aiInput))
         => /\ OneAppended(logs, logs')
            /\ logs'[Len(logs')] = UserEntry(aiInput)
            /\ systemStatus'.aiStatus = "ANALYZING"
            /\ Len(pending') = Len(pending) + 1
            /\ pending'[Len(pending')].userQuery = aiInput
            /\ pending'[Len(pending')].stage = "timer"
     /\ lastOp'.op = "generateSystemInsight"
         => /\ systemStatus.aiStatus = "ANALYZING"
            /\ \E i \in DOMAIN pending :
                 /\ pending[i].stage = "timer"
                 /\ pending[i].userQuery = lastOp'.a
                 /\ pending'[i].stage = "awaiting"
     /\ lastOp'.op = "response"
         => /\ logs'[Len(logs')].type = "ai"
            /\ \A k \in DOMAIN logs' :
                 logs'[k].source = "USER" => k < Len(logs')
            /\ Len(logs) < 16
                 => \E k \in 1..(Len(logs') - 1) :
                      /\ logs'[k] = UserEntry(lastOp'.a)
                      /\ \A m \in (k + 1)..(Len(logs') - 1) :
                           logs'[m].type # "ai"]_vars

C12_Witness ==
  /\ lastOp.op = "response"
  /\ lastOp.a = TXT_DIAGNOSTIC
  /\ Len(logs) = 4
  /\ logs[3] = UserEntry(TXT_DIAGNOSTIC)
  /\ logs[4].type = "ai"

(***************************************************************************)
(* C13: in every reachable state every device's status is IDLE or ACTIVE   *)
(* (OFF and ERROR are never produced), and a toggled device holds the      *)
(* other one of these two than it held before its last toggle.             *)
(***************************************************************************)
C13_StatusIdleOrActive ==
  /\ \A i \in DOMAIN rooms : \A j \in DOMAIN rooms[i].devices :
       rooms[i].devices[j].status \in {"IDLE", "ACTIVE"}
  /\ \A d \in AllDeviceIds :
       toggleHist[d] # "NONE"
         => {toggleHist[d], DeviceStatus(rooms, d)} = {"IDLE", "ACTIVE"}

C13_Witness ==
  /\ toggleHist[ID_washer] = "IDLE"
  /\ toggleHist[ID_camera_front] = "ACTIVE"
  /\ DeviceStatus(rooms, ID_washer) = "ACTIVE"
  /\ DeviceStatus(rooms, ID_camera_front) = "IDLE"

(***************************************************************************)
(* C14: initially neither a room nor a device is selected; selecting a     *)
(* room makes it the active room and clears the device selection; the back *)
(* action of the device view clears the device selection and leaves the    *)
(* active room as it was.                                                  *)
(***************************************************************************)
SelectionStep ==
  /\ lastOp'.op = "selectRoom"
       => /\ activeRoomId' = lastOp'.a
          /\ selectedDeviceId' = Null
  /\ lastOp'.op = "back"
       => /\ selectedDeviceId # Null
          /\ selectedDeviceId' = Null
          /\ activeRoomId' = activeRoomId
          /\ activeRoomId' # Null

C14_SelectionMachine ==
  /\ activeRoomId = Null /\ selectedDeviceId = Null
  /\ [][SelectionStep]_vars

C14_Witness ==
  /\ lastOp.op = "back"
  /\ activeRoomId = ID_garage
  /\ selectedDeviceId = Null

(***************************************************************************)
(* C15: every change of the log is one append: the log after it is the     *)
(* last 15 entries of the log before it, in their order and unmodified,    *)
(* followed by one new entry; so a full log loses its oldest entry.        *)
(***************************************************************************)
Dropped(old) == IF Len(old) > 15 THEN Len(old) - 15 ELSE 0

C15_AppendKeepsLast15 ==
  [][logs' # logs
       => /\ Len(logs') = Len(logs) - Dropped(logs) + 1
          /\ \A k \in 1..(Len(logs') - 1) : logs'[k] = logs[k + Dropped(logs)]
          /\ logs'[Len(logs')].source
               \in {"MANUAL_OVERRIDE", "DEVICE_CTRL", "SECURITY", "USER", "AERO-12"}
          /\ lastOp'.op \in {"toggleRoomLight", "toggleDevice", "toggleSecurity",
                             "handleAICommand", "response"}]_vars

C15_Witness ==
  /\ Len(logs) = 16
  /\ logs[1].message = TXT_PERIMETER
  /\ logs[15].source = "SECURITY"
  /\ logs[16].source = "MANUAL_OVERRIDE"

(***************************************************************************)
(* C16: a device toggle appends one entry, of severity 'warning' when the  *)
(* device goes to ACTIVE and 'info' when it goes to IDLE; a light toggle   *)
(* appends one entry of severity 'info' whose message names the room.      *)
(***************************************************************************)
ToggleLogStep ==
  /\ (lastOp'.op = "toggleDevice" /\ rooms' # rooms)
       => /\ OneAppended(logs, logs')
          /\ logs'[Len(logs')].source = "DEVICE_CTRL"
          /\ DeviceStatus(rooms, lastOp'.b) = "IDLE"
               => /\ DeviceStatus(rooms', lastOp'.b) = "ACTIVE"
                  /\ logs'[Len(logs')].type = "warning"
          /\ DeviceStatus(rooms, lastOp'.b) = "ACTIVE"
               => /\ DeviceStatus(rooms', lastOp'.b) = "IDLE"
                  /\ logs'[Len(logs')].type = "info"
  /\ lastOp'.op = "toggleRoomLight"
       => /\ OneAppended(logs, logs')
          /\ logs'[Len(logs')].source = "MANUAL_OVERRIDE"
          /\ logs'[Len(logs')].type = "info"
          /\ ContainsAnyCase(logs'[Len(logs')].message, lastOp'.a)

C16_ToggleSeverity == [][ToggleLogStep]_vars

C16_Witness ==
  /\ lastOp = Op("toggleDevice", ID_garage, ID_washer)
  /\ DeviceStatus(rooms, ID_washer) = "ACTIVE"
  /\ logs[Len(logs)].type = "warning"
  /\ logs[Len(logs) - 1].source = "MANUAL_OVERRIDE"
  /\ logs[Len(logs) - 1].type = "info"

(***************************************************************************)
(* C17: toggleRoomLight(id) flips the lights flag of the room with that id *)
(* and nothing else: every other room, and that room's devices, baseline   *)
(* power, temperature and humidity are as before, and so are the           *)
(* selection, the view mode, the security mode and the AI status.          *)
(***************************************************************************)
LightToggleFrame(id) ==
  /\ Len(rooms') = Len(rooms)
  /\ \A i \in DOMAIN rooms :
       IF rooms[i].id = id
         THEN /\ rooms'[i].lights = ~rooms[i].lights
              /\ rooms'[i].id = rooms[i].id
              /\ rooms'[i].name = rooms[i].name
              /\ rooms'[i].devices = rooms[i].devices
              /\ rooms'[i].power = rooms[i].power
              /\ rooms'[i].temp = rooms[i].temp
              /\ rooms'[i].humidity = rooms[i].humidity
              /\ rooms'[i].active = rooms[i].active
         ELSE rooms'[i] = rooms[i]
  /\ activeRoomId' = activeRoomId
  /\ selectedDeviceId' = selectedDeviceId
  /\ viewMode' = viewMode
  /\ systemStatus'.security = systemStatus.security
  /\ systemStatus'.aiStatus = systemStatus.aiStatus

C17_LightToggleFrame ==
  [][lastOp'.op = "toggleRoomLight" => LightToggleFrame(lastOp'.a)]_vars

C17_Witness ==
  /\ lastOp = Op("toggleRoomLight", ID_garage, Null)
  /\ rooms[5].lights
  /\ DeviceStatus(rooms, ID_washer) = "ACTIVE"
  /\ \A i \in 1..4 : rooms[i] = INITIAL_ROOMS[i]

(***************************************************************************)
(* C18: toggleDevice(roomId, deviceId) changes only the status field of    *)
(* the device with that id in the room with that id: that device's other   *)
(* fields, every other device, every room's lights flag and other fields,  *)
(* and the order of the devices are as before; when that room holds no     *)
(* device with that id, the rooms are as before and no entry is logged.    *)
(***************************************************************************)
DeviceToggleFrame(roomId, deviceId) ==
  /\ Len(rooms') = Len(rooms)
  /\ \A i \in DOMAIN rooms :
       /\ DOMAIN rooms'[i] = DOMAIN rooms[i]
       /\ \A f \in DOMAIN rooms[i] \ {"devices"} : rooms'[i][f] = rooms[i][f]
       /\ Len(rooms'[i].devices) = Len(rooms[i].devices)
       /\ \A j \in DOMAIN rooms[i].devices :
            LET d == rooms[i].devices[j]
                e == rooms'[i].devices[j]
            IN /\ DOMAIN e = DOMAIN d
               /\ \A f \in DOMAIN d \ {"status"} : e[f] = d[f]
               /\ IF rooms[i].id = roomId /\ d.id = deviceId
                    THEN {d.status, e.status} = {"IDLE", "ACTIVE"}
                    ELSE e.status = d.status
  /\ (\A i \in DOMAIN rooms :
        rooms[i].id = roomId => deviceId \notin DeviceIds(rooms[i]))
       => rooms' = rooms /\ logs' = logs

C18_DeviceToggleFrame ==
  [][lastOp'.op = "toggleDevice"
       => DeviceToggleFrame(lastOp'.a, lastOp'.b)]_vars

C18_Witness ==
  /\ lastOp = Op("toggleDevice", ID_living, ID_washer)
  /\ DeviceStatus(rooms, ID_washer) = "IDLE"
  /\ DeviceStatus(rooms, ID_camera_front) = "IDLE"
  /\ Len(logs) = 3
  /\ logs[3].source = "DEVICE_CTRL"

(***************************************************************************)
(* C19: when the response of a command containing one trigger resolves,    *)
(* the view mode becomes the triggered mode whatever the view mode, the    *)
(* selection, the lights and the devices have become while the command was *)
(* pending (SpecLive: the user acts between submission and response).      *)
(***************************************************************************)
TriggeredMode(pat) ==
  CASE pat = PAT_power -> "POWER"
    [] pat = PAT_water -> "WATER"
    [] pat = PAT_thermal -> "THERMAL"

C19_TriggerOverrides ==
  [][lastOp'.op = "response"
       => \A pat \in Triggers :
            OnlyTrigger(lastOp'.a, pat) => viewMode' = TriggeredMode(pat)]_vars

C19_Witness ==
  /\ lastOp.op = "response"
  /\ lastOp.a = CMD_POWER
  /\ viewMode = "POWER"
  /\ activeRoomId = ID_garage
  /\ rooms[5].lights
  /\ logs[Len(logs) - 2] = UserEntry(CMD_POWER)
  /\ logs[Len(logs) - 1].source = "MANUAL_OVERRIDE"

(***************************************************************************)
(* C20: the snapshot the collaborator is called with is the rooms and the  *)
(* status of the moment the command was submitted: a submission captures   *)
(* the current rooms and status (AI status IDLE), nothing done while the   *)
(* command waits changes what was captured, and the call serializes what   *)
(* was captured, not the rooms and status of the moment of the call.       *)
(***************************************************************************)
Describes(state, rs, status) ==
  /\ state.globalStatus = status
  /\ DOMAIN state.roomData = DOMAIN rs
  /\ \A r \in DOMAIN rs :
       /\ state.roomData[r].name = rs[r].name
       /\ state.roomData[r].temp = rs[r].temp
       /\ state.roomData[r].power = rs[r].power
       /\ state.roomData[r].lights = rs[r].lights
       /\ DOMAIN state.roomData[r].devices = DOMAIN rs[r].devices
       /\ \A j \in DOMAIN rs[r].devices :
            state.roomData[r].devices[j]
              = <<rs[r].devices[j].name, rs[r].devices[j].status>>

SnapshotStep ==
  /\ (lastOp'.op = "handleAICommand" /\ ~IsBlank(aiInput))
       => /\ pending'[Len(pending')].rooms = rooms
          /\ pending'[Len(pending')].systemStatus = systemStatus
          /\ systemStatus.aiStatus = "IDLE"
  /\ lastOp'.op \notin {"handleAICommand", "response"}
       => /\ Len(pending') = Len(pending)
          /\ \A i \in DOMAIN pending :
               /\ pending'[i].rooms = pending[i].rooms
               /\ pending'[i].systemStatus = pending[i].systemStatus
  /\ lastOp'.op = "generateSystemInsight"
       => \E i \in DOMAIN pending :
            /\ pending[i].stage = "timer"
            /\ pending'[i].stage = "awaiting"
            /\ pending'[i].prompt.query = pending[i].userQuery
            /\ Describes(pending'[i].prompt.state,
                         pending[i].rooms, pending[i].systemStatus)
            /\ pending'[i].prompt.state.globalStatus.aiStatus = "IDLE"

C20_SnapshotAtSubmission == [][SnapshotStep]_vars

C20_Witness ==
  /\ lastOp.op = "generateSystemInsight"
  /\ Len(pending) = 1
  /\ pending[1].stage = "awaiting"
  /\ rooms[5].lights
  /\ ~pending[1].prompt.state.roomData[5].lights
  /\ systemStatus.aiStatus = "ANALYZING"
  /\ pending[1].prompt.state.globalStatus.aiStatus = "IDLE"

(***************************************************************************)
(* C21: no update of the system status loses a field another update wrote: *)
(* the completion of a command changes aiStatus only (so the security mode *)
(* and the total power written while it was pending stay), the total-power *)
(* recomputation changes totalPower only, toggleSecurity changes security  *)
(* only, and a submission changes aiStatus only.                           *)
(***************************************************************************)
SameExcept(field) ==
  /\ DOMAIN systemStatus' = DOMAIN systemStatus
  /\ \A f \in DOMAIN systemStatus \ {field} : systemStatus'[f] = systemStatus[f]

StatusStep ==
  /\ lastOp'.op = "response" => SameExcept("aiStatus")
  /\ lastOp'.op = "handleAICommand" => SameExcept("aiStatus")
  /\ lastOp'.op = "useEffect" => SameExcept("totalPower")
  /\ lastOp'.op = "toggleSecurity" => SameExcept("security")

C21_StatusFieldsKept == [][StatusStep]_vars

C21_Witness ==
  /\ lastOp.op = "response"
  /\ systemStatus.security = "DISARMED"
  /\ systemStatus.aiStatus = "IDLE"
  /\ systemStatus.totalPower = total(INITIAL_ROOMS)
  /\ logs[Len(logs) - 1].source = "SECURITY"
  /\ logs[Len(logs) - 2].source = "USER"

(***************************************************************************)
(* C22: in every reachable state a selected device comes with a selected   *)
(* room, and it is a device of that room: selectedDeviceId is never        *)
(* non-null while activeRoomId is null, and never names a device of a room *)
(* other than the active one (SpecSelect: all rooms can be selected).      *)
(***************************************************************************)
C22_SelectedDeviceInActiveRoom ==
  selectedDeviceId # Null
    => /\ activeRoomId # Null
       /\ \E i \in DOMAIN rooms :
            /\ rooms[i].id = activeRoomId
            /\ selectedDeviceId \in DeviceIds(rooms[i])
       /\ \A i \in DOMAIN rooms :
            selectedDeviceId \in DeviceIds(rooms[i]) => rooms[i].id = activeRoomId

C22_Witness ==
  /\ lastOp = Op("handleDeviceSelect", ID_fridge, Null)
  /\ activeRoomId = ID_kitchen
  /\ selectedDeviceId = ID_fridge
  /\ toggleHist[ID_router] # "NONE"

(***************************************************************************)
(* C23: when a command holds more than one trigger, the view mode after    *)
(* its completion is the one of the trigger tested last among those it     *)
(* holds: THERMAL if it holds "view thermal", else WATER (it then holds    *)
(* "view water" and "view power"), wherever in the command they stand.     *)
(***************************************************************************)
TriggersIn(text) == {t \in Triggers : ContainsAnyCase(text, t)}

C23_LastTriggerWins ==
  (lastOp.op = "response" /\ Cardinality(TriggersIn(lastOp.a)) > 1)
    => viewMode = IF PAT_thermal \in TriggersIn(lastOp.a) THEN "THERMAL"
                  ELSE "WATER"

C23_Witness ==
  /\ lastOp.op = "response"
  /\ lastOp.a = CMD_WATER_POWER
  /\ TriggersIn(lastOp.a) = {PAT_power, PAT_water}
  /\ viewMode = "WATER"

(***************************************************************************)
(* C24: toggleSecurity maps ARMED to DISARMED and any other security mode  *)
(* to ARMED, and appends one entry, of severity 'info' when it arms and    *)
(* 'warning' when it disarms; in every reachable state the security mode   *)
(* is ARMED or DISARMED, the network mode is ONLINE and the AI status is   *)
(* IDLE or ANALYZING.                                                      *)
(***************************************************************************)
StatusModes ==
  /\ systemStatus.security \in {"ARMED", "DISARMED"}
  /\ systemStatus.network = "ONLINE"
  /\ systemStatus.aiStatus \in {"IDLE", "ANALYZING"}
  /\ \A mode \in {"ARMED", "DISARMED", "BREACH"} :
       newSecurityStatus(mode) = IF mode = "ARMED" THEN "DISARMED" ELSE "ARMED"

SecurityStep ==
  lastOp'.op = "toggleSecurity"
    => /\ systemStatus.security = "ARMED" => systemStatus'.security = "DISARMED"
       /\ systemStatus.security # "ARMED" => systemStatus'.security = "ARMED"
       /\ OneAppended(logs, logs')
       /\ logs'[Len(logs')].source = "SECURITY"
       /\ logs'[Len(logs')].type
            = IF systemStatus'.security = "ARMED" THEN "info" ELSE "warning"
       /\ logs'[Len(logs')].message
            = TXT_SYSTEM \o (IF systemStatus'.security = "ARMED"
                               THEN TXT_ARMED ELSE TXT_DISARMED)

C24_SecurityToggle == []StatusModes /\ [][SecurityStep]_vars

C24_Witness ==
  /\ lastOp.op = "toggleSecurity"
  /\ systemStatus.security = "ARMED"
  /\ logs[Len(logs)].source = "SECURITY"
  /\ logs[Len(logs)].type = "info"
  /\ logs[Len(logs) - 1].source = "SECURITY"
  /\ logs[Len(logs) - 1].type = "warning"

(***************************************************************************)
(* C25: handleDeviceSelect called with an identity no room owns leaves     *)
(* activeRoomId and selectedDeviceId as they were, a current selection     *)
(* included (SpecCalls).                                                   *)
(***************************************************************************)
Unowned(deviceId) == \A i \in DOMAIN rooms : deviceId \notin DeviceIds(rooms[i])

C25_UnownedSelectIgnored ==
  [][(lastOp'.op = "handleDeviceSelect" /\ Unowned(lastOp'.a))
       => /\ activeRoomId' = activeRoomId
          /\ selectedDeviceId' = selectedDeviceId]_vars

C25_Witness ==
  /\ lastOp = Op("handleDeviceSelect", UNKNOWN_DEVICE, Null)
  /\ activeRoomId = ID_garage
  /\ selectedDeviceId = ID_washer

(***************************************************************************)
(* C26: once a room is selected, a room stays selected: no step of the     *)
(* program (room and device selections, back, toggles, commands and their  *)
(* completions, the recomputation) takes activeRoomId from non-null back   *)
(* to null.                                                                *)
(***************************************************************************)
C26_RoomStaysSelected ==
  [][activeRoomId # Null => activeRoomId' # Null]_vars

C26_Witness ==
  /\ lastOp.op = "response"
  /\ activeRoomId = ID_garage
  /\ selectedDeviceId = Null
  /\ toggleHist[ID_washer] # "NONE"
  /\ pending = <<>>
====
